---- MODULE Spec2Model ----
(***************************************************************************)
(* Meal Brain: canonical / variant resolution of enriched meal records     *)
(* (src/src/meal_taxonomy/brain/upsert_meal.py) against a Supabase store.  *)
(*                                                                         *)
(* Strings are sequences of one-character strings.  Scores are exact       *)
(* rationals <<numerator, denominator>>; the weights 0.55 / 0.45 are       *)
(* 11/20 and 9/20, the thresholds 0.85 / 0.70 are 17/20 and 14/20.         *)
(***************************************************************************)
EXTENDS Integers, Sequences, FiniteSets, TLC

(***************************************************************************)
(* Characters                                                              *)
(***************************************************************************)
LowerSeq ==
    << "a","b","c","d","e","f","g","h","i","j","k","l","m",
       "n","o","p","q","r","s","t","u","v","w","x","y","z" >>

UpperSeq ==
    << "A","B","C","D","E","F","G","H","I","J","K","L","M",
       "N","O","P","Q","R","S","T","U","V","W","X","Y","Z" >>

Range(f) == { f[i] : i \in DOMAIN f }

LowerLetters == Range(LowerSeq)

UpperLetters == Range(UpperSeq)

DigitChars == { "0","1","2","3","4","5","6","7","8","9" }

\* str.lower() on one character
LowerChar(c) ==
    IF c \in UpperLetters
    THEN LowerSeq[CHOOSE i \in DOMAIN UpperSeq : UpperSeq[i] = c]
    ELSE c

\* str.lower()
Lower(s) == [ i \in DOMAIN s |-> LowerChar(s[i]) ]

\* the class [a-z0-9] of normalize_title's re.sub(r"[^a-z0-9]+", " ", t)
IsAlnumLower(c) == c \in LowerLetters \cup DigitChars

\* the regex class \w, which decides where \b matches
IsWordChar(c) == c \in LowerLetters \cup UpperLetters \cup DigitChars \cup {"_"}

(***************************************************************************)
(* Regex helpers used by cleaning.py                                       *)
(***************************************************************************)
RECURSIVE StripLeft(_, _)
StripLeft(s, chars) ==
    IF s # << >> /\ Head(s) \in chars THEN StripLeft(Tail(s), chars) ELSE s

RECURSIVE StripRight(_, _)
StripRight(s, chars) ==
    IF s # << >> /\ s[Len(s)] \in chars
    THEN StripRight(SubSeq(s, 1, Len(s) - 1), chars)
    ELSE s

\* str.strip(chars)
Strip(s, chars) == StripRight(StripLeft(s, chars), chars)

\* re.sub(r"\s+", " ", t)
RECURSIVE CollapseSpaces(_)
CollapseSpaces(s) ==
    IF s = << >> THEN << >>
    ELSE IF Head(s) = " " /\ Len(s) > 1 /\ s[2] = " " THEN CollapseSpaces(Tail(s))
    ELSE << Head(s) >> \o CollapseSpaces(Tail(s))

\* does \b<pat>\b match s at position i, ignoring case
MatchesWordAt(s, i, pat) ==
    /\ i + Len(pat) - 1 <= Len(s)
    /\ \A j \in 1..Len(pat) : LowerChar(s[i + j - 1]) = pat[j]
    /\ (i = 1 \/ ~IsWordChar(s[i - 1]))
    /\ (i + Len(pat) > Len(s) \/ ~IsWordChar(s[i + Len(pat)]))

\* re.sub(r"\b<pat>\b", rep, s, flags=re.I) from position i on
RECURSIVE SubWordFrom(_, _, _, _)
SubWordFrom(s, i, pat, rep) ==
    IF i > Len(s) THEN << >>
    ELSE IF MatchesWordAt(s, i, pat)
         THEN rep \o SubWordFrom(s, i + Len(pat), pat, rep)
         ELSE << s[i] >> \o SubWordFrom(s, i + 1, pat, rep)

SubWord(s, pat, rep) == SubWordFrom(s, 1, pat, rep)

\* re.sub(r"\b(w1|w2|...)\b", "", s, flags=re.I), one word after the other
RECURSIVE RemoveWords(_, _)
RemoveWords(s, words) ==
    IF words = << >> THEN s
    ELSE RemoveWords(SubWord(s, Head(words), << >>), Tail(words))

\* a list of (pattern, replacement) pairs applied in order
RECURSIVE ApplyReplacements(_, _)
ApplyReplacements(s, reps) ==
    IF reps = << >> THEN s
    ELSE ApplyReplacements(SubWord(s, Head(reps)[1], Head(reps)[2]), Tail(reps))

JUNK_WORDS ==
    << <<"r","e","c","i","p","e">>,
       <<"a","u","t","h","e","n","t","i","c">>,
       <<"b","e","s","t">>,
       <<"e","a","s","y">>,
       <<"q","u","i","c","k">> >>

COMMON_REPLACEMENTS ==
    << << <<"r","e","c","i","p","e">>, << >> >>,
       << <<"i","d","l","y">>, <<"i","d","l","i">> >>,
       << <<"d","a","h","i">>, <<"c","u","r","d">> >>,
       << <<"m","i","r","c","h","i">>, <<"c","h","i","l","l","i">> >>,
       << <<"c","h","i","l","l","i"," ","p","o","w","d","e","r">>,
          <<"r","e","d"," ","c","h","i","l","l","i"," ","p","o","w","d","e","r">> >> >>

\* clean_meal_name; << >> stands for both None and the empty string, which the
\* only caller treats alike (cleaned = clean_meal_name(title) or title).
\* Titles hold no parentheses, so the parenthesis rule never matches.
clean_meal_name(name) ==
    LET t0 == Strip(name, {" "}) IN
    IF t0 = << >> THEN << >>
    ELSE LET t1 == RemoveWords(t0, JUNK_WORDS)
             t2 == Strip(CollapseSpaces(t1), {" "})
             t3 == CollapseSpaces(t2)
             t4 == Strip(t3, {" ", "-"})
         IN  ApplyReplacements(t4, COMMON_REPLACEMENTS)

\* re.sub(r"[^a-z0-9]+", " ", t) followed by re.sub(r"\s+", " ", t)
NonAlnumToSpace(s) ==
    CollapseSpaces([ i \in DOMAIN s |-> IF IsAlnumLower(s[i]) THEN s[i] ELSE " " ])

normalize_title(title) ==
    LET c == clean_meal_name(title)
        cleaned == IF c = << >> THEN title ELSE c
    IN  Strip(NonAlnumToSpace(Lower(cleaned)), {" "})

(***************************************************************************)
(* Exact rationals <<n, d>> with d > 0                                     *)
(***************************************************************************)
RECURSIVE Gcd(_, _)
Gcd(a, b) == IF b = 0 THEN a ELSE Gcd(b, a % b)

Reduce(q) ==
    IF q[1] = 0 THEN << 0, 1 >>
    ELSE LET g == Gcd(q[1], q[2]) IN << q[1] \div g, q[2] \div g >>

QLess(p, q) == p[1] * q[2] < q[1] * p[2]

QGeq(p, q) == p[1] * q[2] >= q[1] * p[2]

QZero == << 0, 1 >>

QOne == << 1, 1 >>

\* best_score = -1.0, the start value of _pick_best_candidate's loop
QMinusOne == << -1, 1 >>

\* 0.55 * x + 0.45 * y, the blend used twice by _score_candidate
Blend(x, y) == Reduce(<< 11 * x[1] * y[2] + 9 * y[1] * x[2], 20 * x[2] * y[2] >>)

\* max(0.0, min(1.0, x))
Clamp01(x) == IF QLess(x, QZero) THEN QZero ELSE IF QLess(QOne, x) THEN QOne ELSE x

(***************************************************************************)
(* difflib.SequenceMatcher(a=q, b=c).ratio(), without junk                 *)
(***************************************************************************)
\* length of the common run of a[i..ahi] and b[j..bhi] starting at i and j
RECURSIVE CommonRun(_, _, _, _, _, _)
CommonRun(a, i, ahi, b, j, bhi) ==
    IF i > ahi \/ j > bhi \/ a[i] # b[j] THEN 0
    ELSE 1 + CommonRun(a, i + 1, ahi, b, j + 1, bhi)

\* find_longest_match: the longest block, earliest in a, then earliest in b
find_longest_match(a, alo, ahi, b, blo, bhi) ==
    LET Pairs == (alo..ahi) \X (blo..bhi)
        run == [ p \in Pairs |-> CommonRun(a, p[1], ahi, b, p[2], bhi) ]
        k == CHOOSE n \in Range(run) : \A m \in Range(run) : n >= m
        i == CHOOSE x \in alo..ahi :
                /\ \E y \in blo..bhi : run[<< x, y >>] = k
                /\ \A x2 \in alo..(x - 1) : \A y \in blo..bhi : run[<< x2, y >>] # k
        j == CHOOSE y \in blo..bhi :
                /\ run[<< i, y >>] = k
                /\ \A y2 \in blo..(y - 1) : run[<< i, y2 >>] # k
    IN  << i, j, k >>

\* total size of get_matching_blocks on a[alo..ahi], b[blo..bhi]
RECURSIVE MatchedChars(_, _, _, _, _, _)
MatchedChars(a, alo, ahi, b, blo, bhi) ==
    IF alo > ahi \/ blo > bhi THEN 0
    ELSE LET m == find_longest_match(a, alo, ahi, b, blo, bhi) IN
         IF m[3] = 0 THEN 0
         ELSE m[3]
              + MatchedChars(a, alo, m[1] - 1, b, blo, m[2] - 1)
              + MatchedChars(a, m[1] + m[3], ahi, b, m[2] + m[3], bhi)

\* ratio() = 2.0 * matches / (len(a) + len(b)), 1.0 when both are empty
SequenceRatio(a, b) ==
    IF Len(a) + Len(b) = 0 THEN QOne
    ELSE Reduce(<< 2 * MatchedChars(a, 1, Len(a), b, 1, Len(b)), Len(a) + Len(b) >>)

(***************************************************************************)
(* Token sets                                                              *)
(***************************************************************************)
\* str.split(): the whitespace-delimited tokens of s, in order
RECURSIVE SplitFrom(_, _, _)
SplitFrom(s, i, cur) ==
    IF i > Len(s) THEN (IF cur = << >> THEN << >> ELSE << cur >>)
    ELSE IF s[i] = " "
         THEN (IF cur = << >> THEN << >> ELSE << cur >>) \o SplitFrom(s, i + 1, << >>)
         ELSE SplitFrom(s, i + 1, Append(cur, s[i]))

Split(s) == SplitFrom(s, 1, << >>)

\* token-set Jaccard: len(q & c) / (len(q | c) or 1)
Jaccard(q, c) ==
    LET qt == Range(Split(q))
        ct == Range(Split(c))
        union == Cardinality(qt \cup ct)
    IN  Reduce(<< Cardinality(qt \cap ct), IF union = 0 THEN 1 ELSE union >>)

\* name_score = 0.55 * jacc + 0.45 * seq
NameScore(q, c) == Blend(Jaccard(q, c), SequenceRatio(q, c))

(***************************************************************************)
(* Titles of the model, and the two string functions tabulated on them      *)
(***************************************************************************)
TChole == << "C","h","o","l","e" >>

TCholeLoud == << "C","H","O","L","E","!" >>

TChana == << "C","h","a","n","a" >>

TDal == << "D","a","l" >>

TRoti == << "R","o","t","i" >>

\* every title a record or a row of the model can hold
KnownTitles == { TChole, TCholeLoud, TChana, TDal, TRoti, << >> }

\* the known titles and their normal forms
KnownStrings == KnownTitles \cup { normalize_title(k) : k \in KnownTitles }

\* the function f with its values worked out once, not at each use
Tabulated(f) == f @@ << >>

\* normalize_title on the known strings, computed once
NormalizedTitles == Tabulated([ t \in KnownStrings |-> normalize_title(t) ])

\* normalize_title, looked up when the title is a known one
Normalized(t) ==
    IF t \in KnownStrings THEN NormalizedTitles[t] ELSE normalize_title(t)

\* the normal forms of the known titles
KnownNormals == { normalize_title(k) : k \in KnownStrings }

\* NameScore on the known normal forms, computed once
NameScores ==
    Tabulated([ p \in KnownNormals \X KnownNormals |-> NameScore(p[1], p[2]) ])

\* NameScore, looked up when both strings are known normal forms
NameScoreOf(q, c) ==
    IF q \in KnownNormals /\ c \in KnownNormals
    THEN NameScores[<< q, c >>] ELSE NameScore(q, c)

(***************************************************************************)
(* Candidate scoring and the decision, upsert_meal.py                      *)
(***************************************************************************)
\* Python's None
NONE == "None"

\* T_SAME = 0.85
T_SAME == << 17, 20 >>

\* T_MAYBE = 0.70
T_MAYBE == << 14, 20 >>

\* k=20, the pool size upsert_meal passes to _find_candidate_meals
K == 20

\* x or y on strings
OrElse(x, y) == IF x # << >> THEN x ELSE y

\* float(c.get("score") or 0.0)
RpcScore(c) == IF "score" \in DOMAIN c THEN c.score ELSE 0

SeqMin(xs) == CHOOSE x \in Range(xs) : \A y \in Range(xs) : x <= y

SeqMax(xs) == CHOOSE x \in Range(xs) : \A y \in Range(xs) : x >= y

\* ScoreOfNames taking a pool without spread as full relevance
ScoreOfNamesFlatAsOne(q, c, cand_rpc, min_rpc_score, max_rpc_score) ==
    IF q = << >> \/ c = << >> THEN QZero
    ELSE IF max_rpc_score - min_rpc_score <= 0
    THEN Clamp01(Blend(NameScoreOf(q, c), QOne))
    ELSE Clamp01(Blend(NameScoreOf(q, c),
                       Clamp01(<< cand_rpc - min_rpc_score,
                                  max_rpc_score - min_rpc_score >>)))

\* _score_candidate from its name_score on: q and c are the two normalised
\* titles, cand_rpc the candidate's RPC score
ScoreOfNames(q, c, cand_rpc, min_rpc_score, max_rpc_score) ==
    IF q = << >> \/ c = << >> THEN QZero
    ELSE IF max_rpc_score - min_rpc_score <= 0 THEN QZero
    ELSE Clamp01(Blend(NameScoreOf(q, c),
                       Clamp01(<< cand_rpc - min_rpc_score,
                                  max_rpc_score - min_rpc_score >>)))

\* _score_candidate
score_candidate(enr, cand, min_rpc_score, max_rpc_score) ==
    ScoreOfNames(Normalized(OrElse(enr.canonical_name, enr.name)),
                 Normalized(OrElse(cand.title_normalized, cand.title)),
                 RpcScore(cand), min_rpc_score, max_rpc_score)

\* the for loop of _pick_best_candidate, from candidate i on; scores[i] is
\* _score_candidate of cands[i]
RECURSIVE PickLoop(_, _, _, _, _)
PickLoop(cands, scores, i, best, best_score) ==
    IF i > Len(cands) THEN [ best |-> best, best_score |-> best_score ]
    ELSE IF QLess(best_score, scores[i])
         THEN PickLoop(cands, scores, i + 1, << cands[i] >>, scores[i])
         ELSE PickLoop(cands, scores, i + 1, best, best_score)

\* the candidates' scores, given the least and the greatest RPC score
ScoresIn(enr, candidates, min_rpc_score, max_rpc_score) ==
    [ i \in DOMAIN candidates |->
        score_candidate(enr, candidates[i], min_rpc_score, max_rpc_score) ]

\* the RPC scores of the candidates: rpc_scores of _pick_best_candidate
RpcScoresOf(candidates) ==
    [ i \in DOMAIN candidates |-> RpcScore(candidates[i]) ]

\* _pick_best_candidate with >= in its loop: the last of the best is kept
pick_last_best(enr, candidates) ==
    IF candidates = << >> THEN [ best |-> << >>, best_score |-> QZero ]
    ELSE LET scores == ScoresIn(enr, candidates, SeqMin(RpcScoresOf(candidates)),
                                SeqMax(RpcScoresOf(candidates)))
             last == CHOOSE i \in DOMAIN scores :
                         /\ \A j \in DOMAIN scores : ~QLess(scores[i], scores[j])
                         /\ \A j \in (i + 1)..Len(scores) : QLess(scores[j], scores[i])
         IN  [ best |-> << candidates[last] >>, best_score |-> scores[last] ]

\* _pick_best_candidate; best is << >> for None and << cand >> for a candidate
pick_best_candidate(enr, candidates) ==
    IF candidates = << >> THEN [ best |-> << >>, best_score |-> QZero ]
    ELSE PickLoop(candidates,
                  ScoresIn(enr, candidates, SeqMin(RpcScoresOf(candidates)),
                           SeqMax(RpcScoresOf(candidates))),
                  1, << >>, QMinusOne)

\* Decide with > in place of >= at both thresholds
DecideOff(best, best_score) ==
    IF best # << >> /\ QLess(T_SAME, best_score)
    THEN [ status |-> "attached_as_variant", needs_review |-> FALSE, create |-> FALSE ]
    ELSE IF best # << >> /\ QLess(T_MAYBE, best_score)
    THEN [ status |-> "needs_review", needs_review |-> TRUE, create |-> FALSE ]
    ELSE [ status |-> "new_canonical", needs_review |-> TRUE, create |-> TRUE ]

\* Decide with the else branch reporting needs_review
DecideDefaultReview(best, best_score) ==
    IF best # << >> /\ QGeq(best_score, T_SAME)
    THEN [ status |-> "attached_as_variant", needs_review |-> FALSE, create |-> FALSE ]
    ELSE IF best # << >> /\ QGeq(best_score, T_MAYBE)
    THEN [ status |-> "needs_review", needs_review |-> TRUE, create |-> FALSE ]
    ELSE [ status |-> "needs_review", needs_review |-> TRUE, create |-> TRUE ]

\* step 3 of upsert_meal: the two threshold tests; create = call _insert_new_canonical
Decide(best, best_score) ==
    IF best # << >> /\ QGeq(best_score, T_SAME)
    THEN [ status |-> "attached_as_variant", needs_review |-> FALSE, create |-> FALSE ]
    ELSE IF best # << >> /\ QGeq(best_score, T_MAYBE)
    THEN [ status |-> "needs_review", needs_review |-> TRUE, create |-> FALSE ]
    ELSE [ status |-> "new_canonical", needs_review |-> TRUE, create |-> TRUE ]

(***************************************************************************)
(* Inputs: enriched records and the rows a store can hold at start-up      *)
(***************************************************************************)
\* a TagCandidate as the enrichment makes it; confidence in hundredths
TagFrom(tag_type, value, confidence, is_primary, source) ==
    [ tag_type |-> tag_type, value |-> value, confidence |-> confidence,
      is_primary |-> is_primary, source |-> source ]

\* EnrichedMealVariant with its RawMeal flattened; the fields upsert_meal reads.
\* tag_candidates is the list MealEnrichmentPipeline.enrich hands on: the
\* candidates of the dataset's own columns, then those of the NLP tagger.
EnrichedA ==
    [ source_type |-> "datasetA", source_id |-> "17", name |-> TChole,
      canonical_name |-> << >>, alt_names |-> << TChana >>, predicted_diet |-> "vegan",
      tag_candidates |-> << TagFrom("diet", "vegan", 60, TRUE, "dataset"),
                            TagFrom("diet", "vegan", 90, FALSE, "nlp") >> ]

EnrichedB ==
    [ source_type |-> "datasetB", source_id |-> "3", name |-> TCholeLoud,
      canonical_name |-> TChole, alt_names |-> << >>, predicted_diet |-> NONE,
      tag_candidates |-> << TagFrom("course", "curry", 90, FALSE, "nlp") >> ]

\* a record with no name: canonical_name and raw.name both empty
EnrichedNoName ==
    [ source_type |-> "datasetC", source_id |-> "9", name |-> << >>,
      canonical_name |-> << >>, alt_names |-> << >>, predicted_diet |-> NONE,
      tag_candidates |-> << >> ]

Enriched == { EnrichedA, EnrichedB, EnrichedNoName }

Workers == { "w1", "w2" }

\* upsert_meal is called at most MaxCalls times in a run
MaxCalls == 2

\* the index returns at most MaxPool rows to one search
MaxPool == 3

\* the raw relevance values the index gives
Relevance == 0..3

\* uuids the store hands out, in order
MealIds == << "m1", "m2", "m3", "m4", "m5", "m6", "m7", "m8" >>

VariantIds == << "v1", "v2", "v3", "v4", "v5", "v6", "v7", "v8" >>

\* a store filled by earlier runs: three canonical meals, each with its variant
SeededMeals ==
    << [ id |-> "m1", title |-> TDal, external_source |-> "seed", external_id |-> "1" ],
       [ id |-> "m2", title |-> TRoti, external_source |-> "seed", external_id |-> "2" ],
       [ id |-> "m3", title |-> TChole, external_source |-> "seed", external_id |-> "3" ] >>

SeededVariants ==
    { [ id |-> "v1", meal_id |-> "m1", source_type |-> "seed", source_id |-> "1",
        title_original |-> TDal, needs_review |-> TRUE,
        tag_candidates |-> << >> ],
      [ id |-> "v2", meal_id |-> "m2", source_type |-> "seed", source_id |-> "2",
        title_original |-> TRoti, needs_review |-> TRUE,
        tag_candidates |-> << >> ],
      [ id |-> "v3", meal_id |-> "m3", source_type |-> "seed", source_id |-> "3",
        title_original |-> TChole, needs_review |-> TRUE,
        tag_candidates |-> << >> ] }

\* the tag types _create_tags ensures, in its order
TAG_TYPE_NAMES ==
    << "diet", "meal_type", "cuisine_region", "course", "equipment", "technique",
       "occasion", "difficulty", "time_bucket", "taste_profile", "health",
       "ingredient_category", "spice_level", "kids_friendly" >>

\* which ensure_tag_type calls raise in one _create_tags run: none, or all of
\* them (the tag_types table is out of reach)
TagTypeFailures == { {}, Range(TAG_TYPE_NAMES) }

(***************************************************************************)
(* State                                                                   *)
(***************************************************************************)
VARIABLES
    meals,          \* table meals: sequence of rows, in insertion order
    meal_variants,  \* table meal_variants: set of rows
    meal_synonyms,  \* table meal_synonyms: set of rows
    tag_types,      \* table tag_types: set of names (a type's id is its name)
    tags,           \* table tags: set of rows
    pc,             \* per worker: where its upsert_meal call stands
    enriched,       \* per worker: the argument of the call
    loc,            \* per worker: the locals of the call, and what it has done
    result,         \* per worker: what the finished call gave its caller
    first_result,   \* per key: the ids of the first triple returned for it
    ncalls,         \* upsert_meal calls started so far
    merge,          \* a run of the tag merge of nlp_tags_for_recipe
    batch,          \* a run of the batch driver
    search,         \* a run of steps 1-3 of upsert_meal, one function at a time
    bulk,           \* a run of MealETL._safe_bulk_upsert
    folder          \* a run of ingest_folder

vars ==
    << meals, meal_variants, meal_synonyms, tag_types, tags,
       pc, enriched, loc, result, first_result, ncalls, merge, batch,
       search, bulk, folder >>

\* the runs of the functions the model takes on their own
alone == << search, bulk, folder >>

tables == << meals, meal_variants, meal_synonyms, tag_types, tags >>

Key(e) == << e.source_type, e.source_id >>

Keys == { Key(e) : e \in Enriched }

\* meal_id, variant_id, status, needs_review: the locals of upsert_meal.
\* band: where best_score lies against the two thresholds (see Band).
\* empty: the candidate list was empty.
\* had: a Variant existed for the key when the call looked it up.
\* missed: had, and the lookup raised.
\* later: a triple had been returned for the key before this call began.
\* overlap: another worker's call was under way when this call began.
\* created: id of the meals row this call inserted.
\* wrote: what the variant upsert did (inserted, updated, failed).
\* calls: the kinds of store calls the call has made.
\* top: id of the candidate at rank 1 of the RPC's answer, when its normalised
\* title is the record's and no candidate has a greater RPC score; else empty.
\* inserts, upserts: how often the call sent its insert into meals and its
\* upsert into meal_variants to the store.
NoLocals ==
    [ meal_id |-> "", variant_id |-> "", status |-> "", needs_review |-> FALSE,
      band |-> "", empty |-> FALSE, top |-> "", inserts |-> 0, upserts |-> 0,
      had |-> FALSE, missed |-> FALSE, later |-> FALSE, overlap |-> FALSE,
      created |-> "", wrote |-> "", calls |-> {} ]

\* what a call gave its caller: nothing yet, a triple, or an exception
NoResult == [ kind |-> "none", meal_id |-> "", variant_id |-> "", status |-> "" ]

Returned(meal_id, variant_id, status) ==
    [ kind |-> "returned", meal_id |-> meal_id, variant_id |-> variant_id,
      status |-> status ]

Raised == [ kind |-> "raised", meal_id |-> "", variant_id |-> "", status |-> "" ]

\* no tag merge is running
NoMerge ==
    [ pc |-> "off", first |-> << >>, input |-> << >>, i |-> 0, merged |-> << >>,
      final_tags |-> << >>, round |-> 0 ]

\* no batch is running
NoBatch ==
    [ pc |-> "off", total |-> 0, idx |-> 0, consecutive_failures |-> 0,
      log |-> << >>, attached |-> {} ]

\* no search is running
NoSearch ==
    [ pc |-> "off", e |-> << >>, rpc |-> << >>, scan |-> << >>, asked |-> << >>,
      candidates |-> << >>, scores |-> << >>, best |-> << >>, best_score |-> << >>,
      status |-> "" ]

\* no bulk upsert is running
NoBulk ==
    [ pc |-> "off", rows |-> << >>, table |-> {}, i |-> 0, calls |-> << >> ]

\* no folder is being ingested
NoFolder ==
    [ pc |-> "off", files |-> << >>, f |-> 0, idx |-> 0, consecutive_failures |-> 0,
      total_recipes |-> 0, log |-> << >>, done |-> << >> ]

NoneAlone == search = NoSearch /\ bulk = NoBulk /\ folder = NoFolder

\* no call of upsert_meal has been made
NoCalls ==
    /\ pc = [ w \in Workers |-> "idle" ]
    /\ enriched = [ w \in Workers |-> EnrichedA ]
    /\ loc = [ w \in Workers |-> NoLocals ]
    /\ result = [ w \in Workers |-> NoResult ]
    /\ first_result = [ k \in Keys |-> << >> ]
    /\ ncalls = 0

\* the tables of a store nothing has been written to
EmptyStore ==
    /\ meals = << >>
    /\ meal_variants = {}
    /\ meal_synonyms = {}
    /\ tag_types = {}
    /\ tags = {}

Init ==
    /\ \/ meals = << >> /\ meal_variants = {}
       \/ meals = SeededMeals /\ meal_variants = SeededVariants
    /\ meal_synonyms = {}
    /\ tag_types = {}
    /\ tags = {}
    /\ NoCalls
    /\ merge = NoMerge
    /\ batch = NoBatch
    /\ NoneAlone

(***************************************************************************)
(* The store (Supabase tables and the search RPC)                          *)
(***************************************************************************)
Min2(a, b) == IF a <= b THEN a ELSE b

\* all sequences without repetition over the set S, of length at most n
RECURSIVE Arrangements(_, _)
Arrangements(S, n) ==
    IF n = 0 \/ S = {} THEN { << >> }
    ELSE { << >> } \cup
         UNION { { << x >> \o rest : rest \in Arrangements(S \ {x}, n - 1) } : x \in S }

\* the orderings of all of S
RECURSIVE Orderings(_)
Orderings(S) ==
    IF S = {} THEN { << >> }
    ELSE UNION { { << x >> \o rest : rest \in Orderings(S \ {x}) } : x \in S }

FirstN(xs, n) == SubSeq(xs, 1, Min2(n, Len(xs)))

\* the columns of meals a search reads
MealRows(ms) == [ i \in DOMAIN ms |-> [ id |-> ms[i].id, title |-> ms[i].title ] ]

\* search_meals_v2(query_text, limit_n, ...) on a table holding mrows: some of
\* the rows, ranked, each with a relevance score; which rows and which scores
\* is the index's business
RpcResponses(mrows, limit_n) ==
    UNION { { [ i \in DOMAIN rows |->
                  [ id |-> rows[i].id, title |-> rows[i].title, score |-> sc[i] ] ]
              : sc \in [ DOMAIN rows -> Relevance ] }
            : rows \in Arrangements(Range(mrows), Min2(limit_n, MaxPool)) }

\* does s hold sub at position i
HoldsAt(s, i, sub) ==
    /\ i + Len(sub) - 1 <= Len(s)
    /\ \A j \in 1..Len(sub) : s[i + j - 1] = sub[j]

\* title ILIKE %token%
ILike(title, token) ==
    \E i \in 1..(Len(title) + 1) : HoldsAt(Lower(title), i, Lower(token))

\* table("meals").select("id, title, title_normalized").ilike("title", ...).limit(k)
ScanResponses(mrows, token, limit_n) ==
    { FirstN(rows, limit_n) :
        rows \in Orderings({ m \in Range(mrows) : ILike(m.title, token) }) }

\* the next id of a table that holds n rows
NextId(ids, n) == ids[Min2(n + 1, Len(ids))]

\* .upsert(payload) without on_conflict: always a fresh row
InsertAlways(rows, payload, new_id) ==
    [ rows |-> rows \cup { [ id |-> new_id ] @@ payload }, id |-> new_id ]

\* .upsert(payload, on_conflict="source_type,source_id") on meal_variants:
\* the table after it and the id of the row it returns
UpsertOnConflict(rows, payload, new_id) ==
    LET old == { r \in rows : r.source_type = payload.source_type
                              /\ r.source_id = payload.source_id }
    IN  IF old = {}
        THEN [ rows |-> rows \cup { [ id |-> new_id ] @@ payload }, id |-> new_id ]
        ELSE [ rows |-> (rows \ old) \cup { [ id |-> r.id ] @@ payload : r \in old },
               id |-> (CHOOSE r \in old : TRUE).id ]

\* .upsert(rows, on_conflict="meal_id,synonym_normalized") on meal_synonyms
UpsertSynonyms(table, rows) ==
    { t \in table : ~\E r \in rows : r.meal_id = t.meal_id
                                   /\ r.synonym_normalized = t.synonym_normalized }
    \cup rows

(***************************************************************************)
(* The functions of upsert_meal.py                                         *)
(***************************************************************************)
\* _get_existing_variant, answering None (<< >>) whatever the table holds
get_existing_variant_blind(e, ok) == << >>

\* _get_existing_variant: ok = the select did not raise; << >> is None
get_existing_variant(e, ok) ==
    LET rows == { r \in meal_variants :
                    r.source_type = e.source_type /\ r.source_id = e.source_id }
    IN  IF ok /\ rows # {} THEN << CHOOSE r \in rows : TRUE >> ELSE << >>

\* Method 1 of _find_candidate_meals, on the rows the RPC returned
RpcCandidates(rows) ==
    [ i \in DOMAIN rows |->
        [ id |-> rows[i].id, title |-> rows[i].title,
          title_normalized |-> Normalized(rows[i].title),
          score |-> rows[i].score ] ]

\* Method 2 of _find_candidate_meals, on the rows the scan returned (no score key)
ScanCandidates(rows) ==
    [ i \in DOMAIN rows |->
        [ id |-> rows[i].id, title |-> rows[i].title,
          title_normalized |-> Normalized(rows[i].title) ] ]

\* the token the fallback scans for: tokens[0] if tokens else query
ScanToken(e) ==
    LET query == Normalized(OrElse(e.canonical_name, e.name))
        tokens == Split(query)
    IN  IF tokens # << >> THEN tokens[1] ELSE query

\* _find_candidate_meals going on to the scan when the RPC gave no row
find_candidates_or_scan(e, rpc, scan) ==
    IF rpc # << >> /\ rpc[1] # << >> THEN RpcCandidates(rpc[1])
    ELSE IF ScanToken(e) = << >> THEN << >>
    ELSE IF scan # << >> THEN ScanCandidates(scan[1])
    ELSE << >>

\* _find_candidate_meals on the store's answers: rpc and scan are << >> when the
\* call raised and << rows >> when it returned rows
find_candidate_meals(e, rpc, scan) ==
    IF rpc # << >> THEN RpcCandidates(rpc[1])
    ELSE IF ScanToken(e) = << >> THEN << >>
    ELSE IF scan # << >> THEN ScanCandidates(scan[1])
    ELSE << >>

\* the payload of _insert_new_canonical, the fields the model keeps
CanonicalPayload(e) ==
    [ title |-> OrElse(e.canonical_name, e.name),
      external_source |-> e.source_type, external_id |-> e.source_id ]

\* _insert_new_canonical: the table after it and the id it returns;
\* ok = the insert did not raise
insert_new_canonical(e, ok) ==
    IF ok
    THEN LET id == NextId(MealIds, Len(meals)) IN
         [ meals |-> Append(meals, [ id |-> id ] @@ CanonicalPayload(e)), meal_id |-> id ]
    ELSE [ meals |-> meals, meal_id |-> "" ]

\* asdict(c) of a TagCandidate
AsDict(c) ==
    [ tag_type |-> c.tag_type, value |-> c.value, confidence |-> c.confidence,
      is_primary |-> c.is_primary, source |-> c.source ]

\* _serialize_tag_candidates on a list of TagCandidate
serialize_tag_candidates(tag_candidates) ==
    [ i \in DOMAIN tag_candidates |-> AsDict(tag_candidates[i]) ]

\* the payload with needs_review left at its default, False
VariantPayloadUnflagged(meal_id, e, needs_review) ==
    [ meal_id |-> meal_id, source_type |-> e.source_type, source_id |-> e.source_id,
      title_original |-> e.name, needs_review |-> FALSE,
      tag_candidates |-> serialize_tag_candidates(e.tag_candidates) ]

\* the payload of _upsert_variant, the fields the model keeps; tag_candidates
\* is meta.tag_candidates
VariantPayload(meal_id, e, needs_review) ==
    [ meal_id |-> meal_id, source_type |-> e.source_type, source_id |-> e.source_id,
      title_original |-> e.name, needs_review |-> needs_review,
      tag_candidates |-> serialize_tag_candidates(e.tag_candidates) ]

\* _upsert_variant: the table after it and the id it returns;
\* ok = the upsert did not raise
upsert_variant(meal_id, e, needs_review, ok) ==
    IF ok
    THEN UpsertOnConflict(meal_variants, VariantPayload(meal_id, e, needs_review),
                          NextId(VariantIds, Cardinality(meal_variants)))
    ELSE [ rows |-> meal_variants, id |-> "" ]

\* the rows _attach_synonyms builds: blank names are skipped
RECURSIVE SynonymRows(_, _)
SynonymRows(meal_id, names) ==
    IF names = << >> THEN {}
    ELSE (IF Strip(Head(names), {" "}) = << >> THEN {}
          ELSE { [ meal_id |-> meal_id, synonym |-> Strip(Head(names), {" "}),
                   synonym_normalized |-> Normalized(Head(names)) ] })
         \cup SynonymRows(meal_id, Tail(names))

\* _attach_synonyms: the table after it; ok = the upsert did not raise
attach_synonyms(meal_id, e, ok) ==
    LET rows == SynonymRows(meal_id, e.alt_names) IN
    IF rows # {} /\ ok THEN UpsertSynonyms(meal_synonyms, rows) ELSE meal_synonyms

\* _create_tags: the two tables after it and whether it raised; the
\* ensure_tag_type calls in failed raise (swallowed), tag_ok = ensure_tag
\* does not raise.  With no id for the type, ensure_tag gets tag_type_id=None.
create_tags(e, failed, tag_ok) ==
    LET tag_type_Ids == Range(TAG_TYPE_NAMES) \ failed
        row == [ tag_type_id |-> IF "diet" \in tag_type_Ids THEN "diet" ELSE NONE,
                 value |-> e.predicted_diet ]
    IN  [ tag_types |-> tag_types \cup tag_type_Ids,
          tags |-> IF e.predicted_diet # NONE /\ tag_ok THEN tags \cup { row } ELSE tags,
          raised |-> e.predicted_diet # NONE /\ ~tag_ok ]

(***************************************************************************)
(* upsert_meal, step by step; each store call is one step                  *)
(***************************************************************************)
\* a call returns: the first triple returned for a key is remembered
Finish(w, res) ==
    /\ result' = [ result EXCEPT ![w] = res ]
    /\ first_result' =
         IF res.kind = "returned" /\ first_result[Key(enriched[w])] = << >>
         THEN [ first_result EXCEPT ![Key(enriched[w])] = << res.meal_id, res.variant_id >> ]
         ELSE first_result
    /\ pc' = [ pc EXCEPT ![w] = "done" ]

\* step 0: the idempotency lookup; a row found ends the call
UpsertMealStart(w, e, ok) ==
    /\ pc[w] = "idle"
    /\ ncalls < MaxCalls
    /\ ncalls' = ncalls + 1
    /\ UNCHANGED << merge, batch, alone >>
    /\ enriched' = [ enriched EXCEPT ![w] = e ]
    /\ LET existing == get_existing_variant(e, ok)
           had == \E r \in meal_variants : << r.source_type, r.source_id >> = Key(e)
           started == [ NoLocals EXCEPT !.had = had, !.missed = had /\ ~ok,
                                        !.later = first_result[Key(e)] # << >>,
                                        !.overlap = \E o \in Workers \ { w } :
                                            pc[o] \in { "find", "insert", "variant" },
                                        !.calls = { "lookup" } ]
       IN  IF existing # << >>
           THEN /\ loc' = [ loc EXCEPT ![w] =
                              [ started EXCEPT !.meal_id = existing[1].meal_id,
                                               !.variant_id = existing[1].id,
                                               !.status = "existing_variant" ] ]
                /\ result' = [ result EXCEPT ![w] =
                                 Returned(existing[1].meal_id, existing[1].id,
                                          "existing_variant") ]
                /\ first_result' =
                     IF first_result[Key(e)] = << >>
                     THEN [ first_result EXCEPT ![Key(e)] =
                              << existing[1].meal_id, existing[1].id >> ]
                     ELSE first_result
                /\ pc' = [ pc EXCEPT ![w] = "done" ]
           ELSE /\ loc' = [ loc EXCEPT ![w] = started ]
                /\ pc' = [ pc EXCEPT ![w] = "find" ]
                /\ UNCHANGED << result, first_result >>
    /\ UNCHANGED tables

\* where a score lies against the thresholds
Band(score) ==
    IF ~QLess(score, T_MAYBE) /\ ~QLess(T_MAYBE, score) THEN "at T_MAYBE"
    ELSE IF ~QLess(score, T_SAME) /\ ~QLess(T_SAME, score) THEN "at T_SAME"
    ELSE IF QLess(score, T_MAYBE) THEN "below T_MAYBE"
    ELSE IF QLess(score, T_SAME) THEN "between"
    ELSE "above T_SAME"

\* what upsert_meal holds after step 3: p is what _pick_best_candidate gave,
\* d the decision on it
OutcomeOf(p, d, empty) ==
    [ meal_id |-> IF d.create THEN "" ELSE p.best[1].id,
      status |-> d.status, needs_review |-> d.needs_review, create |-> d.create,
      band |-> Band(p.best_score), empty |-> empty ]

\* step 3 on what _pick_best_candidate gave
DecidedOn(p, empty) == OutcomeOf(p, Decide(p.best, p.best_score), empty)

\* the candidate's normalised title is the record's, and is not empty
SameDish(e, cand) ==
    /\ cand.title_normalized # << >>
    /\ cand.title_normalized = Normalized(OrElse(e.canonical_name, e.name))

\* the list came from the search RPC, and no candidate has a greater RPC
\* score than the first
TopOfIndex(candidates) ==
    /\ "score" \in DOMAIN candidates[1]
    /\ RpcScore(candidates[1]) = SeqMax(RpcScoresOf(candidates))

\* steps 1-3 on a candidate list: what upsert_meal holds after the decision
FindOutcome(e, candidates) ==
    [ top |-> IF candidates # << >> /\ SameDish(e, candidates[1])
                 /\ TopOfIndex(candidates)
              THEN candidates[1].id ELSE "" ]
    @@ DecidedOn(pick_best_candidate(e, candidates), candidates = << >>)

\* the call goes on to _insert_new_canonical or straight to _upsert_variant
Decided(w, o) ==
    /\ loc' = [ loc EXCEPT ![w] =
                  [ @ EXCEPT !.meal_id = o.meal_id, !.status = o.status,
                             !.needs_review = o.needs_review,
                             !.band = o.band, !.empty = o.empty, !.top = o.top,
                             !.calls = @ \cup { "search", "score" } ] ]
    /\ pc' = [ pc EXCEPT ![w] = IF o.create THEN "insert" ELSE "variant" ]
    /\ UNCHANGED << tables, enriched, result, first_result, ncalls, merge, batch, alone >>

\* what steps 1-3 can come to for record e when the RPC answers, on a table
\* holding mrows
RpcOutcomes(e, mrows) ==
    { FindOutcome(e, find_candidate_meals(e, << rows >>, << >>))
      : rows \in RpcResponses(mrows, K) }

\* the same when the RPC raises and the ILIKE scan answers
ScanOutcomes(e, mrows) ==
    { FindOutcome(e, find_candidate_meals(e, << >>, << rows >>))
      : rows \in ScanResponses(mrows, ScanToken(e), K) }

\* the titles a call can insert
InsertedTitles == { OrElse(e.canonical_name, e.name) : e \in Enriched }

\* what a search can find in meals during a run: the rows the table started
\* with, then one row for each canonical inserted by an earlier call
MealRowsInRun ==
    UNION { { MealRows(start)
              \o [ i \in 1..n |-> [ id |-> MealIds[Len(start) + i], title |-> ts[i] ] ]
              : ts \in [ 1..n -> InsertedTitles ] }
            : start \in { << >>, SeededMeals }, n \in 0..(MaxCalls - 1) }

\* RpcOutcomes on each of them, worked out once
RpcOutcomesInRun ==
    Tabulated([ e \in Enriched, mrows \in MealRowsInRun |-> RpcOutcomes(e, mrows) ])

\* RpcOutcomes, looked up where it has been worked out
RpcOutcomesOf(e, mrows) ==
    IF e \in Enriched /\ mrows \in MealRowsInRun
    THEN RpcOutcomesInRun[<< e, mrows >>] ELSE RpcOutcomes(e, mrows)

\* steps 1-3, the RPC answers
FindByRpc(w) ==
    /\ pc[w] = "find"
    /\ \E o \in RpcOutcomesOf(enriched[w], MealRows(meals)) : Decided(w, o)

\* steps 1-3, the RPC raises and the ILIKE scan answers
FindByScan(w) ==
    /\ pc[w] = "find"
    /\ ScanToken(enriched[w]) # << >>
    /\ \E o \in ScanOutcomes(enriched[w], MealRows(meals)) : Decided(w, o)

\* steps 1-3, the RPC raises and the scan raises too
FindNothing(w) ==
    /\ pc[w] = "find"
    /\ Decided(w, FindOutcome(enriched[w],
                              find_candidate_meals(enriched[w], << >>, << >>)))

\* the else branch of step 3
InsertCanonical(w, ok) ==
    /\ pc[w] = "insert"
    /\ LET r == insert_new_canonical(enriched[w], ok) IN
       /\ meals' = r.meals
       /\ loc' = [ loc EXCEPT ![w] =
                     [ @ EXCEPT !.meal_id = r.meal_id, !.created = r.meal_id,
                                !.inserts = @ + 1,
                                !.calls = @ \cup { "insert" } ] ]
    /\ pc' = [ pc EXCEPT ![w] = "variant" ]
    /\ UNCHANGED << meal_variants, meal_synonyms, tag_types, tags,
                    enriched, result, first_result, ncalls, merge, batch, alone >>

\* steps 4-6 and the return: _upsert_variant, _attach_synonyms, _create_tags.
\* The last two write tables no step of upsert_meal reads.
UpsertVariant(w, ok, syn_ok, failed, tag_ok) ==
    /\ pc[w] = "variant"
    /\ LET e == enriched[w]
           v == upsert_variant(loc[w].meal_id, e, loc[w].needs_review, ok)
           t == create_tags(e, failed, tag_ok)
           existed == \E r \in meal_variants : << r.source_type, r.source_id >> = Key(e)
       IN  /\ meal_variants' = v.rows
           /\ meal_synonyms' = attach_synonyms(loc[w].meal_id, e, syn_ok)
           /\ tag_types' = t.tag_types
           /\ tags' = t.tags
           /\ loc' = [ loc EXCEPT ![w] =
                         [ @ EXCEPT !.variant_id = v.id, !.upserts = @ + 1,
                                    !.wrote = IF ~ok THEN "failed"
                                              ELSE IF existed THEN "updated"
                                              ELSE "inserted",
                                    !.calls = @ \cup { "upsert", "synonyms", "tags" } ] ]
           /\ Finish(w, IF t.raised THEN Raised
                        ELSE Returned(loc[w].meal_id, v.id, loc[w].status))
    /\ UNCHANGED << meals, enriched, ncalls, merge, batch, alone >>

\* the caller takes the result; the worker is free for its next record
Return(w) ==
    /\ pc[w] = "done"
    /\ pc' = [ pc EXCEPT ![w] = "idle" ]
    /\ loc' = [ loc EXCEPT ![w] = NoLocals ]
    /\ result' = [ result EXCEPT ![w] = NoResult ]
    /\ enriched' = [ enriched EXCEPT ![w] = EnrichedA ]
    /\ UNCHANGED << tables, first_result, ncalls, merge, batch, alone >>

Next ==
    \E w \in Workers :
        \/ \E e \in Enriched, ok \in BOOLEAN : UpsertMealStart(w, e, ok)
        \/ FindByRpc(w)
        \/ FindByScan(w)
        \/ FindNothing(w)
        \/ \E ok \in BOOLEAN : InsertCanonical(w, ok)
        \/ \E ok \in BOOLEAN, syn_ok \in BOOLEAN, failed \in TagTypeFailures,
              tag_ok \in BOOLEAN : UpsertVariant(w, ok, syn_ok, failed, tag_ok)
        \/ Return(w)

Spec == Init /\ [][Next]_vars

(***************************************************************************)
(* The tag merge of RecipeNLP.nlp_tags_for_recipe, nlp_tagging.py          *)
(***************************************************************************)
TagTypes == { "diet", "course" }

TagValues == { "vegan", "curry" }

\* confidences, in tenths
Confidences == { 5, 9 }

\* TagCandidate, the fields the merge reads or that tell two candidates apart
TagCandidates ==
    [ tag_type : TagTypes, value : TagValues, confidence : Confidences,
      is_primary : BOOLEAN ]

\* rule_tags + ner_tags holds at most MaxTags candidates
MaxTags == 3

TagLists == UNION { [ 1..n -> TagCandidates ] : n \in 0..MaxTags }

\* key = (cand.tag_type, cand.value)
TagKey(cand) == << cand.tag_type, cand.value >>

\* the body of the for loop with merged[key] = cand done unconditionally
MergeKeepLast(merged, cand) ==
    LET at == { j \in DOMAIN merged : TagKey(merged[j]) = TagKey(cand) }
    IN  IF at = {} THEN Append(merged, cand)
        ELSE [ merged EXCEPT ![CHOOSE j \in at : TRUE] = cand ]

\* the body of the for loop with key = cand.tag_type
MergeByType(merged, cand) ==
    LET at == { j \in DOMAIN merged : merged[j].tag_type = cand.tag_type }
    IN  IF at = {} THEN Append(merged, cand)
        ELSE IF cand.confidence > merged[CHOOSE j \in at : TRUE].confidence
        THEN [ merged EXCEPT ![CHOOSE j \in at : TRUE] = cand ]
        ELSE merged

\* the body of the for loop: merged is the dict, as the list of its values in
\* the order the keys were first set
MergeCandidate(merged, cand) ==
    LET at == { j \in DOMAIN merged : TagKey(merged[j]) = TagKey(cand) }
    IN  IF at = {} THEN Append(merged, cand)
        ELSE IF cand.confidence > merged[CHOOSE j \in at : TRUE].confidence
        THEN [ merged EXCEPT ![CHOOSE j \in at : TRUE] = cand ]
        ELSE merged

\* the rest of the model stands still during a merge
MergeOnly ==
    UNCHANGED << tables, pc, enriched, loc, result, first_result, ncalls, batch, alone >>

InitMerge ==
    /\ EmptyStore
    /\ NoCalls
    /\ batch = NoBatch
    /\ NoneAlone
    /\ \E tag_list \in TagLists :
          merge = [ NoMerge EXCEPT !.pc = "loop", !.first = tag_list,
                                   !.input = tag_list, !.i = 1, !.round = 1 ]

\* for cand in rule_tags + ner_tags: one pass
MergeTag ==
    /\ merge.pc = "loop"
    /\ merge.i <= Len(merge.input)
    /\ merge' = [ merge EXCEPT !.merged = MergeCandidate(@, merge.input[merge.i]),
                               !.i = @ + 1 ]
    /\ MergeOnly

\* final_tags = list(merged.values())
MergeReturn ==
    /\ merge.pc = "loop"
    /\ merge.i > Len(merge.input)
    /\ merge' = [ merge EXCEPT !.final_tags = merge.merged, !.pc = "done" ]
    /\ MergeOnly

\* the merged list is merged once more
MergeAgain ==
    /\ merge.pc = "done"
    /\ merge.round = 1
    /\ merge' = [ merge EXCEPT !.input = merge.final_tags, !.i = 1,
                               !.merged = << >>, !.final_tags = << >>,
                               !.round = 2, !.pc = "loop" ]
    /\ MergeOnly

NextMerge == MergeTag \/ MergeReturn \/ MergeAgain

SpecMerge == InitMerge /\ [][NextMerge]_vars

(***************************************************************************)
(* The batch drivers: ingest_indian_kaggle (pipeline.py) and ingest_folder *)
(* (ingest_kaggle_all.py), with MealETL.ingest_recipe                      *)
(***************************************************************************)
max_consecutive_failures == 5

\* a batch holds at most MaxRecords records
MaxRecords == 6

\* the tables whose writes the store rejects while one record is ingested
WriteFaults == SUBSET { "meals", "meal_variants" }

\* record n of the batch; a dataset gives each of its rows an id of its own
Recipe(n) ==
    [ (IF n % 2 = 1 THEN EnrichedA ELSE EnrichedB) EXCEPT !.source_id = ToString(n) ]

\* upsert_meal when it returns at step 0
ReturnedExisting(existing) ==
    [ meals |-> meals, meal_variants |-> meal_variants,
      meal_synonyms |-> meal_synonyms, tag_types |-> tag_types, tags |-> tags,
      meal_id |-> existing.meal_id, raised |-> FALSE, rejected |-> FALSE ]

\* upsert_meal from step 4 on: c is what step 3 left (the meals table and
\* meal_id), rejected tells whether the store has rejected a write of the call
FromUpsertVariant(e, c, v, t, syn_ok, rejected) ==
    [ meals |-> c.meals, meal_variants |-> v.rows,
      meal_synonyms |-> attach_synonyms(c.meal_id, e, syn_ok),
      tag_types |-> t.tag_types, tags |-> t.tags,
      meal_id |-> c.meal_id, raised |-> t.raised, rejected |-> rejected ]

\* upsert_meal from step 3 on: o is what steps 1-3 decided
FromDecision(e, o, c, faults, tag_ok) ==
    FromUpsertVariant(e, c,
                      upsert_variant(c.meal_id, e, o.needs_review,
                                     "meal_variants" \notin faults),
                      create_tags(e, {}, tag_ok), TRUE,
                      \/ o.create /\ "meals" \in faults
                      \/ "meal_variants" \in faults)

\* steps 1-3 of upsert_meal when the index returns no row to the search
Searched(e, o, faults, tag_ok) ==
    FromDecision(e, o,
                 IF o.create THEN insert_new_canonical(e, "meals" \notin faults)
                 ELSE [ meals |-> meals, meal_id |-> o.meal_id ],
                 faults, tag_ok)

\* upsert_meal, with no other call at work between its steps: the tables after
\* it, the meal_id it returns, whether it raised, and whether the store
\* rejected its insert into meals or its upsert into meal_variants
upsert_meal(e, faults, tag_ok) ==
    IF get_existing_variant(e, TRUE) # << >>
    THEN ReturnedExisting(get_existing_variant(e, TRUE)[1])
    ELSE Searched(e, FindOutcome(e, find_candidate_meals(e, << << >> >>, << >>)),
                  faults, tag_ok)

\* MealETL.ingest_recipe: upsert_meal, then attach_ingredients and attach_tags,
\* whose tables the model does not hold; rest_ok = none of them raises.
\* attached tells the meal_id they attached rows to.
AfterUpsertMeal(u, rest_ok) ==
    [ u EXCEPT !.raised = u.raised \/ ~rest_ok ]
    @@ [ attached |-> IF ~u.raised /\ rest_ok THEN { u.meal_id } ELSE {} ]

ingest_recipe(e, faults, tag_ok, rest_ok) ==
    AfterUpsertMeal(upsert_meal(e, faults, tag_ok), rest_ok)

\* the loop body breaking at the first failure
BreakOnFailure(raised, consecutive_failures) ==
    IF ~raised THEN [ consecutive_failures |-> 0, break |-> FALSE ]
    ELSE [ consecutive_failures |-> consecutive_failures + 1, break |-> TRUE ]

\* the loop body without consecutive_failures = 0
NoReset(raised, consecutive_failures) ==
    IF ~raised THEN [ consecutive_failures |-> consecutive_failures, break |-> FALSE ]
    ELSE [ consecutive_failures |-> consecutive_failures + 1,
           break |-> consecutive_failures + 1 >= max_consecutive_failures ]

\* the try/except of the loop body: the counter after the record, and whether
\* the loop breaks
AfterRecord(raised, consecutive_failures) ==
    IF ~raised THEN [ consecutive_failures |-> 0, break |-> FALSE ]
    ELSE [ consecutive_failures |-> consecutive_failures + 1,
           break |-> consecutive_failures + 1 >= max_consecutive_failures ]

\* the rest of the model stands still during a batch
BatchOnly ==
    UNCHANGED << pc, enriched, loc, result, first_result, ncalls, merge, alone >>

InitBatch ==
    /\ EmptyStore
    /\ NoCalls
    /\ merge = NoMerge
    /\ NoneAlone
    /\ \E n \in 0..MaxRecords : batch = [ NoBatch EXCEPT !.pc = "loop", !.total = n ]

\* one pass of the loop, r being what ingest_recipe did and a what the
\* except clause made of it
Looped(e, r, a) ==
    /\ meals' = r.meals
    /\ meal_variants' = r.meal_variants
    /\ meal_synonyms' = r.meal_synonyms
    /\ tag_types' = r.tag_types
    /\ tags' = r.tags
    /\ batch' = [ batch EXCEPT
                    !.idx = @ + 1,
                    !.consecutive_failures = a.consecutive_failures,
                    !.pc = IF a.break THEN "aborted" ELSE "loop",
                    !.log = Append(@, [ key |-> Key(e), failed |-> r.raised,
                                        rejected |-> r.rejected ]),
                    !.attached = @ \cup r.attached ]

Ingested(e, r) == Looped(e, r, AfterRecord(r.raised, batch.consecutive_failures))

\* for idx, rec in enumerate(recipes): the next record
IngestRecipe(faults, tag_ok, rest_ok) ==
    /\ batch.pc = "loop"
    /\ batch.idx < batch.total
    /\ Ingested(Recipe(batch.idx + 1),
                ingest_recipe(Recipe(batch.idx + 1), faults, tag_ok, rest_ok))
    /\ BatchOnly

\* the loop has run through recipes
BatchEnd ==
    /\ batch.pc = "loop"
    /\ batch.idx = batch.total
    /\ batch' = [ batch EXCEPT !.pc = "finished" ]
    /\ UNCHANGED tables
    /\ BatchOnly

NextBatch ==
    \/ \E faults \in WriteFaults, tag_ok \in BOOLEAN, rest_ok \in BOOLEAN :
          IngestRecipe(faults, tag_ok, rest_ok)
    \/ BatchEnd

SpecBatch == InitBatch /\ [][NextBatch]_vars

(***************************************************************************)
(* Steps 1-3 of upsert_meal, one function at a time: _find_candidate_meals, *)
(* _pick_best_candidate with _score_candidate, and the threshold decision  *)
(***************************************************************************)
\* a store in which the dish of SeededMeals[3] has a second canonical
TwiceChole ==
    Append(SeededMeals, [ id |-> "m4", title |-> TChole,
                          external_source |-> "datasetA", external_id |-> "17" ])

TwiceCholeVariants ==
    SeededVariants \cup
    { [ id |-> "v4", meal_id |-> "m4", source_type |-> "datasetA", source_id |-> "17",
        title_original |-> TChole, needs_review |-> TRUE,
        tag_candidates |-> serialize_tag_candidates(EnrichedA.tag_candidates) ] }

\* the store calls _find_candidate_meals makes, in order, given what the RPC
\* answered: the scan comes only in the except branch, and only with a token
StoreCalls(e, rpc) ==
    IF rpc # << >> THEN << "rpc" >>
    ELSE IF ScanToken(e) = << >> THEN << "rpc" >>
    ELSE << "rpc", "scan" >>

\* the rest of the model stands still during a search
SearchOnly ==
    UNCHANGED << tables, pc, enriched, loc, result, first_result, ncalls,
                 merge, batch, bulk, folder >>

InitSearch ==
    /\ \/ meals = << >> /\ meal_variants = {}
       \/ meals = SeededMeals /\ meal_variants = SeededVariants
       \/ meals = TwiceChole /\ meal_variants = TwiceCholeVariants
    /\ meal_synonyms = {}
    /\ tag_types = {}
    /\ tags = {}
    /\ NoCalls
    /\ merge = NoMerge
    /\ batch = NoBatch
    /\ bulk = NoBulk
    /\ folder = NoFolder
    /\ \E e \in Enriched : search = [ NoSearch EXCEPT !.pc = "find", !.e = e ]

\* what search_meals_v2 can do on a table holding mrows: raise (<< >>) or
\* answer with rows
RpcAnswers(mrows) ==
    { << >> } \cup { << rows >> : rows \in RpcResponses(mrows, K) }

\* what the ILIKE select for token can do: raise (<< >>) or answer with rows
ScanAnswers(mrows, token) ==
    { << >> } \cup { << rows >> : rows \in ScanResponses(mrows, token, K) }

\* _find_candidate_meals on the answers rpc and scan, the second being what
\* the select does when it is sent
FindOn(rpc, scan) ==
    /\ search' = [ search EXCEPT
                     !.pc = "pick",
                     !.rpc = rpc,
                     !.scan = scan,
                     !.asked = StoreCalls(search.e, rpc),
                     !.candidates = find_candidate_meals(search.e, rpc, scan) ]
    /\ SearchOnly

\* _find_candidate_meals
Find ==
    /\ search.pc = "find"
    /\ \E rpc \in RpcAnswers(MealRows(meals)),
          scan \in ScanAnswers(MealRows(meals), ScanToken(search.e)) :
          FindOn(rpc, scan)

\* _pick_best_candidate; scores holds what _score_candidate gave in its loop
Pick ==
    /\ search.pc = "pick"
    /\ search' = [ search EXCEPT
                     !.pc = "decide",
                     !.scores = IF search.candidates = << >> THEN << >>
                                ELSE ScoresIn(search.e, search.candidates,
                                              SeqMin(RpcScoresOf(search.candidates)),
                                              SeqMax(RpcScoresOf(search.candidates))),
                     !.best = pick_best_candidate(search.e, search.candidates).best,
                     !.best_score =
                         pick_best_candidate(search.e, search.candidates).best_score ]
    /\ SearchOnly

\* step 3 of upsert_meal
DecideBest ==
    /\ search.pc = "decide"
    /\ search' = [ search EXCEPT
                     !.pc = "done",
                     !.status = Decide(search.best, search.best_score).status ]
    /\ SearchOnly

NextSearch == Find \/ Pick \/ DecideBest

SpecSearch == InitSearch /\ [][NextSearch]_vars

(***************************************************************************)
(* MealETL._safe_bulk_upsert, pipeline.py                                  *)
(***************************************************************************)
\* chunk_size = 500
chunk_size == 500

\* a call passes at most MaxRows rows
MaxRows == 3

\* rows of meal_tags, as attach_tags builds them
BulkRows ==
    { [ meal_id |-> "m1", tag_id |-> "t1" ], [ meal_id |-> "m1", tag_id |-> "t2" ] }

BulkLists == UNION { [ 1..n -> BulkRows ] : n \in 0..MaxRows }

\* what the store can say when it rejects an upsert
MsgBulk == << "B","u","l","k"," ","o","f","f" >>

MsgParallel == << "n","o"," ","p","a","r","a","l","l","e","l" >>

MsgTimeout == << "t","i","m","e","o","u","t" >>

Messages == { MsgBulk, MsgParallel, MsgTimeout }

\* sub in s
Contains(s, sub) == \E i \in 1..(Len(s) + 1) : HoldsAt(s, i, sub)

\* msg = str(exc).lower(); "parallel" in msg or "multiple" in msg or "bulk" in msg
KnownLimitation(exc) ==
    \/ Contains(Lower(exc), << "p","a","r","a","l","l","e","l" >>)
    \/ Contains(Lower(exc), << "m","u","l","t","i","p","l","e" >>)
    \/ Contains(Lower(exc), << "b","u","l","k" >>)

\* what one upsert call does: it goes through (<< >>) or raises (<< exc >>)
UpsertOutcomes == { << >> } \cup { << exc >> : exc \in Messages }

\* rows[i : i + chunk_size]
Chunk(rows, i) == SubSeq(rows, i + 1, Min2(i + chunk_size, Len(rows)))

\* the rest of the model stands still during a bulk upsert
BulkOnly ==
    UNCHANGED << tables, pc, enriched, loc, result, first_result, ncalls,
                 merge, batch, search, folder >>

InitBulk ==
    /\ EmptyStore
    /\ NoCalls
    /\ merge = NoMerge
    /\ batch = NoBatch
    /\ search = NoSearch
    /\ folder = NoFolder
    /\ \E rows \in BulkLists : bulk = [ NoBulk EXCEPT !.pc = "start", !.rows = rows ]

\* if not rows: return
BulkStart ==
    /\ bulk.pc = "start"
    /\ bulk' = [ bulk EXCEPT !.pc = IF bulk.rows = << >> THEN "returned" ELSE "bulk" ]
    /\ BulkOnly

\* the single bulk upsert, and the except clause around it
BulkUpsert(out) ==
    /\ bulk.pc = "bulk"
    /\ bulk' = [ bulk EXCEPT
                   !.calls = Append(@, out),
                   !.table = IF out = << >> THEN @ \cup Range(bulk.rows) ELSE @,
                   !.i = 0,
                   !.pc = IF out = << >> THEN "returned"
                          ELSE IF KnownLimitation(out[1]) THEN "chunks"
                          ELSE "raised" ]
    /\ BulkOnly

\* the upsert of one chunk, and the inner except clause
ChunkUpsert(out) ==
    /\ bulk.pc = "chunks"
    /\ bulk' = [ bulk EXCEPT
                   !.calls = Append(@, out),
                   !.table = IF out = << >> THEN @ \cup Range(Chunk(bulk.rows, bulk.i))
                             ELSE @,
                   !.i = IF out = << >> THEN @ + chunk_size ELSE 0,
                   !.pc = IF out = << >>
                          THEN (IF bulk.i + chunk_size >= Len(bulk.rows)
                                THEN "returned" ELSE "chunks")
                          ELSE IF KnownLimitation(out[1]) THEN "rows"
                          ELSE "returned" ]
    /\ BulkOnly

\* the upsert of one row; nothing catches what it raises
RowUpsert(out) ==
    /\ bulk.pc = "rows"
    /\ bulk' = [ bulk EXCEPT
                   !.calls = Append(@, out),
                   !.table = IF out = << >> THEN @ \cup { bulk.rows[bulk.i + 1] } ELSE @,
                   !.i = IF out = << >> THEN @ + 1 ELSE @,
                   !.pc = IF out # << >> THEN "raised"
                          ELSE IF bulk.i + 1 >= Len(bulk.rows) THEN "returned"
                          ELSE "rows" ]
    /\ BulkOnly

NextBulk ==
    \/ BulkStart
    \/ \E out \in UpsertOutcomes : BulkUpsert(out)
    \/ \E out \in UpsertOutcomes : ChunkUpsert(out)
    \/ \E out \in UpsertOutcomes : RowUpsert(out)

SpecBulk == InitBulk /\ [][NextBulk]_vars

(***************************************************************************)
(* ingest_folder, ingest_kaggle_all.py.  files[j] is len(recipes) of file   *)
(* j; log holds, for each record of the current file taken so far, whether *)
(* ingest_recipe raised; done holds, for each file left behind, whether it *)
(* was loaded, how many of its records were taken, how many of them        *)
(* failed, and whether the loop over them was broken off.                  *)
(***************************************************************************)
\* a folder holds at most MaxFiles files
MaxFiles == 2

\* a file holds at most MaxFileRecords records
MaxFileRecords == 6

Folders == UNION { [ 1..n -> 0..MaxFileRecords ] : n \in 0..MaxFiles }

\* consecutive_failures carried over from the file before
CounterKept(consecutive_failures) == consecutive_failures

\* consecutive_failures = 0, once per file
CounterAtFile(consecutive_failures) == 0

\* the try/except of the loop over the records of a file; the threshold is
\* max_consecutive_failures = 5 here too
FolderAfterRecord(raised, consecutive_failures) ==
    IF ~raised THEN [ consecutive_failures |-> 0, break |-> FALSE ]
    ELSE [ consecutive_failures |-> consecutive_failures + 1,
           break |-> consecutive_failures + 1 >= max_consecutive_failures ]

\* the rest of the model stands still while a folder is ingested
FolderOnly ==
    UNCHANGED << tables, pc, enriched, loc, result, first_result, ncalls,
                 merge, batch, search, bulk >>

InitFolder ==
    /\ EmptyStore
    /\ NoCalls
    /\ merge = NoMerge
    /\ batch = NoBatch
    /\ search = NoSearch
    /\ bulk = NoBulk
    /\ \E files \in Folders : folder = [ NoFolder EXCEPT !.pc = "start", !.files = files ]

\* if not files: return
FolderStart ==
    /\ folder.pc = "start"
    /\ folder' = [ folder EXCEPT !.pc = IF folder.files = << >> THEN "returned" ELSE "file" ]
    /\ FolderOnly

\* what the loop over files has when it leaves a file
Left(loaded, aborted) ==
    [ loaded |-> loaded, aborted |-> aborted, taken |-> Len(folder.log),
      failed |-> Cardinality({ j \in DOMAIN folder.log : folder.log[j].failed }) ]

\* for fpath in files: load_kaggle_csv; ok = it did not raise
LoadFile(ok) ==
    /\ folder.pc = "file"
    /\ folder.f < Len(folder.files)
    /\ folder' =
         IF ok
         THEN [ folder EXCEPT !.pc = "records", !.idx = 0, !.log = << >>,
                              !.consecutive_failures = CounterAtFile(@) ]
         ELSE [ folder EXCEPT !.f = @ + 1, !.log = << >>,
                              !.done = Append(@, [ loaded |-> FALSE, aborted |-> FALSE,
                                                   taken |-> 0, failed |-> 0 ]) ]
    /\ FolderOnly

\* one pass of the loop over the records of the file, a being what the
\* except clause made of it
FolderLooped(raised, a) ==
    /\ folder' =
         IF a.break
         THEN [ folder EXCEPT
                  !.pc = "file", !.f = @ + 1,
                  !.consecutive_failures = a.consecutive_failures,
                  !.total_recipes = @ + folder.files[folder.f + 1],
                  !.log = Append(@, [ failed |-> raised ]),
                  !.done = Append(@, [ Left(TRUE, TRUE) EXCEPT
                                         !.taken = @ + 1, !.failed = @ + 1 ]) ]
         ELSE [ folder EXCEPT
                  !.idx = @ + 1,
                  !.consecutive_failures = a.consecutive_failures,
                  !.log = Append(@, [ failed |-> raised ]) ]

\* for idx, rec in enumerate(recipes): etl.ingest_recipe(rec) raises or not
FolderRecord(raised) ==
    /\ folder.pc = "records"
    /\ folder.idx < folder.files[folder.f + 1]
    /\ FolderLooped(raised, FolderAfterRecord(raised, folder.consecutive_failures))
    /\ FolderOnly

\* the loop over the records has run through: total_recipes += len(recipes)
FileEnd ==
    /\ folder.pc = "records"
    /\ folder.idx = folder.files[folder.f + 1]
    /\ folder' = [ folder EXCEPT
                     !.pc = "file", !.f = @ + 1,
                     !.total_recipes = @ + folder.files[folder.f + 1],
                     !.done = Append(@, Left(TRUE, FALSE)) ]
    /\ FolderOnly

\* the loop over files has run through
FolderEnd ==
    /\ folder.pc = "file"
    /\ folder.f = Len(folder.files)
    /\ folder' = [ folder EXCEPT !.pc = "returned" ]
    /\ FolderOnly

NextFolder ==
    \/ FolderStart
    \/ \E ok \in BOOLEAN : LoadFile(ok)
    \/ \E raised \in BOOLEAN : FolderRecord(raised)
    \/ FileEnd
    \/ FolderEnd

SpecFolder == InitFolder /\ [][NextFolder]_vars

(***************************************************************************)
(* Properties                                                              *)
(***************************************************************************)
AtDone(w) == pc[w] = "done"

\* the call of w went past the idempotency lookup and gave back a triple
Deduped(w) ==
    /\ AtDone(w)
    /\ result[w].kind = "returned"
    /\ "search" \in loc[w].calls

RowsOfKey(k) == { r \in meal_variants : << r.source_type, r.source_id >> = k }

\* the call of w added no row to meals and none to meal_variants (rows are
\* never deleted, so the two counts are then what they would be without it)
AddedNoRow(w) == loc[w].created = "" /\ loc[w].wrote # "inserted"

\* C1 (as the spec states it): once a call for a key has returned (c, v, s),
\* every later call for that key returns (c, v, "existing_variant").
C1_IdempotentReplay ==
    \A w \in Workers :
        AtDone(w) /\ loc[w].later =>
            LET first == first_result[Key(enriched[w])]
            IN  result[w] = Returned(first[1], first[2], "existing_variant")

\* C2 (as the spec states it): a call for a record whose Variant is already
\* stored adds no meals row and no meal_variants row.
C2_RerunKeepsCounts ==
    \A w \in Workers : AtDone(w) /\ loc[w].had => AddedNoRow(w)

\* C3: at most one meal_variants row per (source_type, source_id), whatever the
\* interleaving ...
UniqueVariantKeys ==
    \A r1 \in meal_variants, r2 \in meal_variants :
        r1.source_type = r2.source_type /\ r1.source_id = r2.source_id => r1 = r2

\* ... and an upsert that meets a row with its key keeps that row's id, gives it
\* the new content and leaves the number of rows as it was.
UpsertKeepsRow ==
    \A w \in Workers :
        pc[w] = "variant" /\ pc'[w] = "done" /\ loc'[w].wrote = "updated" =>
            \E old \in RowsOfKey(Key(enriched[w])) :
                LET new == [ id |-> old.id ]
                           @@ VariantPayload(loc[w].meal_id, enriched[w],
                                             loc[w].needs_review)
                IN  /\ meal_variants' = (meal_variants \ { old }) \cup { new }
                    /\ loc'[w].variant_id = old.id
                    /\ Cardinality(meal_variants') = Cardinality(meal_variants)

\* C3: variant key uniqueness in every reachable state, and an upsert on an
\* existing key updates the row in place.
C3_VariantKeyUnique == [] UniqueVariantKeys /\ [][UpsertKeepsRow]_vars

\* two workers took the same source row at the same time: one inserted its
\* Variant, the other updated it, and one row is there
C3_Witness ==
    \E w1 \in Workers, w2 \in Workers :
        /\ w1 # w2
        /\ AtDone(w1) /\ AtDone(w2)
        /\ Key(enriched[w1]) = Key(enriched[w2])
        /\ ~loc[w1].had /\ ~loc[w2].had
        /\ loc[w1].wrote = "inserted" /\ loc[w2].wrote = "updated"
        /\ Cardinality(RowsOfKey(Key(enriched[w1]))) = 1

\* C4: with a non-empty pool the returned status is attached_as_variant iff
\* best_score >= T_SAME, needs_review iff T_MAYBE <= best_score < T_SAME and
\* new_canonical iff best_score < T_MAYBE; it is one of the three.
C4_ThresholdDecision ==
    \A w \in Workers :
        Deduped(w) /\ ~loc[w].empty =>
            /\ result[w].status \in { "attached_as_variant", "needs_review", "new_canonical" }
            /\ result[w].status = "attached_as_variant"
                 <=> loc[w].band \in { "at T_SAME", "above T_SAME" }
            /\ result[w].status = "needs_review"
                 <=> loc[w].band \in { "at T_MAYBE", "between" }
            /\ result[w].status = "new_canonical"
                 <=> loc[w].band = "below T_MAYBE"

\* one call scored exactly T_SAME and attached, another scored exactly T_MAYBE
\* and asked for review
C4_Witness ==
    \E w1 \in Workers, w2 \in Workers :
        /\ Deduped(w1) /\ ~loc[w1].empty /\ ~loc[w1].had
        /\ loc[w1].band = "at T_SAME" /\ result[w1].status = "attached_as_variant"
        /\ Deduped(w2) /\ ~loc[w2].empty /\ ~loc[w2].had
        /\ loc[w2].band = "at T_MAYBE" /\ result[w2].status = "needs_review"

\* C5 (as the spec states it): attached_as_variant and needs_review create no
\* canonical; new_canonical creates exactly one, which is the returned id; the
\* written Variant references the returned canonical id, and its needs_review
\* flag is false exactly for attached_as_variant.
C5_OutcomeEffects ==
    \A w \in Workers :
        Deduped(w) =>
            /\ result[w].status \in { "attached_as_variant", "needs_review" }
                 => loc[w].created = ""
            /\ result[w].status = "new_canonical"
                 => /\ loc[w].created # ""
                    /\ result[w].meal_id = loc[w].created
                    /\ \E i \in DOMAIN meals : meals[i].id = loc[w].created
            /\ \E r \in RowsOfKey(Key(enriched[w])) :
                 /\ r.id = result[w].variant_id
                 /\ r.meal_id = result[w].meal_id
                 /\ r.needs_review = (result[w].status # "attached_as_variant")

\* C6: an empty candidate list gives new_canonical, whatever the record and
\* whatever the store holds.
C6_EmptyPoolNewCanonical ==
    \A w \in Workers :
        Deduped(w) /\ loc[w].empty => result[w].status = "new_canonical"

\* the retriever gave nothing although the store holds meals, for the record
\* that has a canonical_name and no diet
C6_Witness ==
    \E w \in Workers :
        /\ Deduped(w) /\ loc[w].empty /\ ~loc[w].had
        /\ enriched[w] = EnrichedB
        /\ Len(meals) > Len(SeededMeals)
        /\ result[w].status = "new_canonical"

\* the lookup of w's call was answered by the store with a row
LookupFound(w) == loc[w].had /\ ~loc[w].missed

\* a call whose lookup found a row has returned existing_variant, having made
\* no other store call
ReplayReturnsAtOnce ==
    \A w \in Workers :
        LookupFound(w) =>
            /\ AtDone(w)
            /\ result[w].kind = "returned" /\ result[w].status = "existing_variant"
            /\ loc[w].calls = { "lookup" }
            /\ loc[w].created = "" /\ loc[w].wrote = ""

\* the step of a call that returns from the lookup gives back the ids of the
\* stored row and leaves the five tables alone
ReplayWritesNothing ==
    \A w \in Workers :
        pc[w] = "idle" /\ pc'[w] = "done" =>
            /\ tables' = tables
            /\ \E r \in RowsOfKey(Key(enriched'[w])) :
                 result'[w] = Returned(r.meal_id, r.id, "existing_variant")

\* C7: when the lookup finds a Variant the call returns at once, without
\* retrieval, scoring or any write to the five tables.
C7_ReplayNoEffects == [] ReplayReturnsAtOnce /\ [][ReplayWritesNothing]_vars

\* a replay: a Variant written by an earlier call is found, with synonyms and
\* tags already in the store
C7_Witness ==
    \E w \in Workers :
        /\ LookupFound(w) /\ AtDone(w)
        /\ loc[w].later
        /\ result[w].status = "existing_variant"
        /\ meal_synonyms # {} /\ tags # {}

\* C8 (as the spec states it): a call whose lookup failed for an already
\* ingested key adds no meals row and no meal_variants row.
C8_LookupFailureHarmless ==
    \A w \in Workers : AtDone(w) /\ loc[w].missed => AddedNoRow(w)

\* C9 (as the spec states it): every Variant's meal_id is the id of exactly one
\* meals row.
C9_ReferentialIntegrity ==
    \A r \in meal_variants :
        Cardinality({ i \in DOMAIN meals : meals[i].id = r.meal_id }) = 1

\* C10 (as the spec states it): with no call in flight, every meals row is
\* referenced by the Variant of the record that created it.
C10_NoOrphanCanonicals ==
    (\A w \in Workers : pc[w] \in { "idle", "done" }) =>
        \A i \in DOMAIN meals :
            \E r \in meal_variants :
                /\ r.meal_id = meals[i].id
                /\ r.source_type = meals[i].external_source
                /\ r.source_id = meals[i].external_id

\* the store rejected the call's insert into meals
InsertRejected(w) == "insert" \in loc[w].calls /\ loc[w].created = ""

\* the store rejected the call's upsert into meal_variants
UpsertRejected(w) == loc[w].wrote = "failed"

\* C11 (as the spec states it): a call whose canonical insert or variant upsert
\* was rejected gives its caller an error and no triple; a returned triple names
\* a meals row and a meal_variants row that references it.
C11_FailLoud ==
    \A w \in Workers :
        AtDone(w) =>
            /\ InsertRejected(w) \/ UpsertRejected(w) => result[w].kind = "raised"
            /\ result[w].kind = "returned" =>
                 /\ \E i \in DOMAIN meals : meals[i].id = result[w].meal_id
                 /\ \E r \in meal_variants : /\ r.id = result[w].variant_id
                                             /\ r.meal_id = result[w].meal_id

\* C12 (as the spec states it): a rejected insert or upsert is sent once more,
\* and no write is sent more than twice.
C12_ReducedPayloadRetry ==
    \A w \in Workers :
        AtDone(w) =>
            /\ InsertRejected(w) => loc[w].inserts = 2
            /\ UpsertRejected(w) => loc[w].upserts = 2
            /\ loc[w].inserts <= 2 /\ loc[w].upserts <= 2

\* C16 (as the spec states it): a call for a record with no name gives its
\* caller an error, and creates or changes no meals row and no meal_variants row.
C16_InputErrorsWriteNothing ==
    \A w \in Workers :
        AtDone(w) /\ OrElse(enriched[w].canonical_name, enriched[w].name) = << >> =>
            /\ result[w].kind = "raised"
            /\ loc[w].inserts = 0 /\ loc[w].upserts = 0

\* C20 (as the spec states it): a record whose index search puts at rank 1, with
\* the greatest score, a canonical of the same dish created from another source
\* is attached to that canonical and creates no canonical of its own.
C20_CrossSourceAttachment ==
    \A w \in Workers :
        Deduped(w) /\ loc[w].top # ""
        /\ (\E i \in DOMAIN meals : /\ meals[i].id = loc[w].top
                                    /\ meals[i].external_source # enriched[w].source_type) =>
            /\ result[w].status = "attached_as_variant"
            /\ result[w].meal_id = loc[w].top
            /\ loc[w].inserts = 0

\* the positions of xs that hold key k
Group(xs, k) == { j \in DOMAIN xs : TagKey(xs[j]) = k }

\* no two entries of xs have the same (tag_type, value)
DistinctPairs(xs) == \A a, b \in DOMAIN xs : TagKey(xs[a]) = TagKey(xs[b]) => a = b

\* C17: the merged list holds exactly one entry for each (tag_type, value) of
\* the input, and its confidence is the greatest confidence the input has for
\* that pair.
C17_MergeDeduplicates ==
    merge.pc = "done" =>
        /\ DistinctPairs(merge.final_tags)
        /\ { TagKey(c) : c \in Range(merge.final_tags) }
             = { TagKey(c) : c \in Range(merge.input) }
        /\ \A j \in DOMAIN merge.final_tags :
             /\ \A a \in Group(merge.input, TagKey(merge.final_tags[j])) :
                  merge.final_tags[j].confidence >= merge.input[a].confidence
             /\ \E a \in Group(merge.input, TagKey(merge.final_tags[j])) :
                  merge.final_tags[j].confidence = merge.input[a].confidence

\* a merge has ended whose input held a pair twice, the later entry with the
\* greater confidence
C17_Witness ==
    /\ merge.pc = "done"
    /\ merge.round = 1
    /\ \E a, b \in DOMAIN merge.input :
         /\ a < b
         /\ TagKey(merge.input[a]) = TagKey(merge.input[b])
         /\ merge.input[a].confidence < merge.input[b].confidence

\* C18 (as the spec states it): the entry kept for a pair is primary exactly
\* when some input entry with that pair is primary.
C18_MergePrimaryFlag ==
    merge.pc = "done" =>
        \A j \in DOMAIN merge.final_tags :
            merge.final_tags[j].is_primary
              = (\E a \in Group(merge.input, TagKey(merge.final_tags[j])) :
                    merge.input[a].is_primary)

\* C19: merging a list of pairwise distinct pairs gives back its entries, every
\* field as it was, and merging a merged list gives back that list.
C19_MergeIdempotent ==
    merge.pc = "done" =>
        /\ DistinctPairs(merge.input) =>
             /\ Range(merge.final_tags) = Range(merge.input)
             /\ Len(merge.final_tags) = Len(merge.input)
        /\ merge.round = 2 => merge.final_tags = merge.input

\* a list that held a pair twice has been merged, and its merged list merged
\* again
C19_Witness ==
    /\ merge.pc = "done"
    /\ merge.round = 2
    /\ Len(merge.final_tags) >= 2
    /\ Len(merge.first) > Len(merge.final_tags)


\* the number of records that failed in a row at the end of the log
Streak(log) ==
    Len(log) - CHOOSE j \in 0..Len(log) :
                   /\ j = 0 \/ ~log[j].failed
                   /\ \A k \in (j + 1)..Len(log) : log[k].failed

\* the rows of the log and of the store after the step are those before it,
\* but for the record of the step
EarlierUntouched ==
    Len(batch'.log) = Len(batch.log) + 1 =>
        /\ SubSeq(batch'.log, 1, Len(batch.log)) = batch.log
        /\ SubSeq(meals', 1, Len(meals)) = meals
        /\ \A r \in meal_variants :
              Key(r) # batch'.log[Len(batch'.log)].key => r \in meal_variants'
        /\ meal_synonyms \subseteq meal_synonyms'
        /\ batch.attached \subseteq batch'.attached

\* C13: a batch takes its records one at a time in input order; a record
\* that fails is logged and the loop goes on with the next record while the
\* failures in a row are fewer than the threshold, so a batch that was not
\* aborted has handled every record; and no step, failed or not, changes
\* what the earlier records left in the store.
C13_FailureIsolation ==
    /\ [](/\ Len(batch.log) = batch.idx
          /\ \A j \in DOMAIN batch.log : batch.log[j].key = Key(Recipe(j))
          /\ (batch.idx < batch.total
               /\ Streak(batch.log) < max_consecutive_failures) => batch.pc = "loop"
          /\ batch.pc = "finished" => batch.idx = batch.total)
    /\ [][EarlierUntouched]_vars

\* a record failed after one was stored, and the loop went on and stored
\* the record that came next
C13_Witness ==
    /\ Len(batch.log) >= 3
    /\ ~batch.log[1].failed /\ batch.log[2].failed /\ ~batch.log[3].failed
    /\ batch.pc = "loop"
    /\ \E r \in meal_variants : Key(r) = Key(Recipe(1))
    /\ \E r \in meal_variants : Key(r) = Key(Recipe(3))

\* C14 as stated: the batch stops early exactly when the failures in a row
\* exceed the threshold.
C14_AbortWhenExceeded ==
    batch.pc = "aborted" <=> Streak(batch.log) > max_consecutive_failures

\* C14: the batch stops early exactly when the failures in a row reach the
\* threshold; a success resets the count, which is the number of failures in
\* a row at the end of the log; and an aborted batch handles no further
\* record.
C14_AbortAtThreshold ==
    /\ [](/\ batch.pc = "aborted" <=> Streak(batch.log) >= max_consecutive_failures
          /\ batch.consecutive_failures = Streak(batch.log)
          /\ Streak(batch.log) <= max_consecutive_failures)
    /\ [][batch.pc = "aborted" => UNCHANGED << batch, meals, meal_variants,
                                               meal_synonyms, tag_types, tags >>]_vars

\* the batch was aborted at the fifth failure in a row, with a record left
C14_Witness ==
    /\ batch.pc = "aborted"
    /\ batch.idx < batch.total
    /\ Len(batch.log) = max_consecutive_failures

\* C15: a record whose write the store rejected counts as a failure of the
\* batch, so a store that rejects every write ends the batch by the
\* threshold.
C15_PersistenceFailuresAbort ==
    /\ \A j \in DOMAIN batch.log : batch.log[j].rejected => batch.log[j].failed
    /\ (\E j \in DOMAIN batch.log :
           /\ j + max_consecutive_failures - 1 <= Len(batch.log)
           /\ \A k \in j..(j + max_consecutive_failures - 1) : batch.log[k].rejected)
        => batch.pc = "aborted"

\* the call of w created a canonical and wrote its Variant
CreatedAndWrote(w) ==
    /\ AtDone(w)
    /\ loc[w].status = "new_canonical"
    /\ loc[w].created # ""
    /\ loc[w].wrote \in { "inserted", "updated" }

\* the name the record is known by, normalised
DishOf(e) == Normalized(OrElse(e.canonical_name, e.name))

\* C21: when the calls of two workers for two different source rows have
\* both created a canonical and written their Variant, the two canonicals are
\* two rows of meals, and each Variant has needs_review = true and references
\* the canonical its own worker created.
C21_RaceLeavesReviewFlag ==
    \A w1 \in Workers, w2 \in Workers :
        (/\ w1 # w2
         /\ Key(enriched[w1]) # Key(enriched[w2])
         /\ CreatedAndWrote(w1) /\ CreatedAndWrote(w2)) =>
            /\ loc[w1].created # loc[w2].created
            /\ \A w \in { w1, w2 } :
                  /\ \E i \in DOMAIN meals : meals[i].id = loc[w].created
                  /\ \E r \in RowsOfKey(Key(enriched[w])) :
                        /\ r.id = loc[w].variant_id
                        /\ r.needs_review
                        /\ r.meal_id = loc[w].created

\* two workers took two source rows of one dish at the same time, on a store
\* that held no meal: each created a canonical, and the dish has two
C21_Witness ==
    \E w1 \in Workers, w2 \in Workers :
        /\ w1 # w2
        /\ Key(enriched[w1]) # Key(enriched[w2])
        /\ DishOf(enriched[w1]) = DishOf(enriched[w2])
        /\ DishOf(enriched[w1]) # << >>
        /\ CreatedAndWrote(w1) /\ CreatedAndWrote(w2)
        /\ loc[w2].overlap
        /\ Len(meals) = 2
        /\ { meals[i].id : i \in DOMAIN meals } = { loc[w1].created, loc[w2].created }

\* C27: a step changes neither the meal_id nor the needs_review flag of a
\* Variant row that is in the store, whatever call takes the step.
C27_StableCanonicalReference ==
    [][\A r \in meal_variants : \A r2 \in meal_variants' :
          Key(r2) = Key(r) => r2.meal_id = r.meal_id /\ r2.needs_review = r.needs_review]_vars

\* the call of w wrote its Variant and then raised
RaisedLate(w) ==
    /\ AtDone(w)
    /\ result[w].kind = "raised"
    /\ loc[w].wrote \in { "inserted", "updated" }

\* what a call that raised late has written is in the store
LateFailureKeepsRows ==
    \A w \in Workers :
        RaisedLate(w) =>
            /\ loc[w].created # "" => \E i \in DOMAIN meals : meals[i].id = loc[w].created
            /\ \E r \in RowsOfKey(Key(enriched[w])) : r.id = loc[w].variant_id

\* the call that begins for the record of a call that raised late ends at
\* once with existing_variant and the ids of that call, and writes nothing
NextCallReturnsExisting ==
    \A w \in Workers, o \in Workers :
        (/\ RaisedLate(o)
         /\ pc[w] = "idle" /\ pc'[w] # "idle"
         /\ enriched'[w] = enriched[o]) =>
            /\ pc'[w] = "done"
            /\ result'[w] = Returned(loc[o].meal_id, loc[o].variant_id, "existing_variant")
            /\ "tags" \notin loc'[w].calls
            /\ UNCHANGED tables

\* C30: after upsert_meal raised in _create_tags, the canonical and the
\* Variant it wrote stay in the store, and the next call for the same record
\* returns existing_variant with those ids without creating tags.
C30_RecoveryAfterLateFailure ==
    [] LateFailureKeepsRows /\ [][NextCallReturnsExisting]_vars

\* C25: the tag_candidates snapshot of every Variant in the store holds at most
\* one entry for each (tag_type, value).
C25_SnapshotIsMerged ==
    \A r \in meal_variants : DistinctPairs(r.tag_candidates)

\* the search is past _find_candidate_meals
Found == search.pc \in { "pick", "decide", "done" }

\* the search is past _pick_best_candidate
Picked == search.pc \in { "decide", "done" }

\* C22: the scan is sent only after the RPC raised; when the RPC answered,
\* the candidates are its rows, none being taken from the scan, even when it
\* gave no row; and when neither call answers the list is empty and the
\* decision is new_canonical.
C22_RetrieverDegradation ==
    Found =>
        /\ "scan" \in Range(search.asked) => search.rpc = << >>
        /\ search.rpc # << >> =>
              /\ Len(search.candidates) = Len(search.rpc[1])
              /\ \A i \in DOMAIN search.candidates :
                    /\ search.candidates[i].id = search.rpc[1][i].id
                    /\ "score" \in DOMAIN search.candidates[i]
        /\ (search.rpc = << >> /\ search.scan = << >>) =>
              /\ search.candidates = << >>
              /\ search.pc = "done" => search.status = "new_canonical"

\* the RPC answered with no row while the scan had rows to give: they were
\* not asked for, and the decision was new_canonical
C22_Witness ==
    /\ search.pc = "done"
    /\ search.rpc = << << >> >>
    /\ search.scan # << >> /\ search.scan[1] # << >>
    /\ search.asked = << "rpc" >>
    /\ search.candidates = << >>
    /\ search.status = "new_canonical"

\* all the candidates have the same raw relevance
Flat(candidates) ==
    \A i, j \in DOMAIN candidates : RpcScore(candidates[i]) = RpcScore(candidates[j])

\* name_score of _score_candidate for the record and a candidate; 0 when one
\* of the two names is empty
NameScoreIn(e, cand) ==
    IF DishOf(e) = << >> \/ Normalized(OrElse(cand.title_normalized, cand.title)) = << >>
    THEN QZero
    ELSE NameScoreOf(DishOf(e), Normalized(OrElse(cand.title_normalized, cand.title)))

\* C23: when all candidates of a call have the same raw relevance, each
\* candidate's final score is 0.55 times its name score.
C23_ZeroSpreadRelevance ==
    (Picked /\ Flat(search.candidates)) =>
        \A i \in DOMAIN search.candidates :
            search.scores[i] = Blend(NameScoreIn(search.e, search.candidates[i]), QZero)

\* C24: for a non-empty list _pick_best_candidate returns a candidate of the
\* list with its score, no candidate has a greater score, and every candidate
\* before it in the list has a smaller one; for an empty list it returns
\* (None, 0).
C24_BestCandidate ==
    Picked =>
        IF search.candidates = << >>
        THEN search.best = << >> /\ search.best_score = QZero
        ELSE /\ search.best # << >>
             /\ \A j \in DOMAIN search.scores : ~QLess(search.best_score, search.scores[j])
             /\ \E i \in DOMAIN search.candidates :
                   /\ search.candidates[i] = search.best[1]
                   /\ search.scores[i] = search.best_score
                   /\ \A j \in 1..(i - 1) : QLess(search.scores[j], search.best_score)

\* two candidates shared the greatest score, which was above that of a third
\* and not 0, and the one that came first in the list was returned
C24_Witness ==
    /\ Picked
    /\ \E i, j, k \in DOMAIN search.candidates :
          /\ i < j
          /\ search.scores[i] = search.scores[j]
          /\ QLess(search.scores[k], search.scores[i])
          /\ QLess(QZero, search.scores[i])
          /\ search.best = << search.candidates[i] >>
          /\ search.best_score = search.scores[i]

\* C26: when the candidates come from the scan, or there is one candidate, or
\* all have the same raw relevance, the best score is below T_MAYBE and the
\* decision is new_canonical.
C26_NoAttachmentWithoutSpread ==
    (/\ search.pc = "done"
     /\ \/ search.rpc = << >>
        \/ Len(search.candidates) = 1
        \/ Flat(search.candidates)) =>
        /\ QLess(search.best_score, T_MAYBE)
        /\ search.status = "new_canonical"

\* the RPC gave two candidates of the same raw relevance, the first with the
\* record's own normalised name, and the decision was new_canonical
C26_Witness ==
    /\ search.pc = "done"
    /\ search.rpc # << >>
    /\ Len(search.candidates) = 2
    /\ Flat(search.candidates)
    /\ SameDish(search.e, search.candidates[1])
    /\ search.status = "new_canonical"

\* C28: when _safe_bulk_upsert has returned, every row passed to it is in the
\* table; and when its last upsert was rejected, whatever the message, it has
\* raised.
C28_BulkUpsertAllOrError ==
    /\ bulk.pc = "returned" => Range(bulk.rows) \subseteq bulk.table
    /\ (/\ bulk.pc \in { "returned", "raised" }
        /\ bulk.calls # << >>
        /\ bulk.calls[Len(bulk.calls)] # << >>) => bulk.pc = "raised"

\* the counter is the number of records of the current file that failed in a
\* row, so it started at zero for the file
CounterIsPerFile ==
    folder.pc = "records" => folder.consecutive_failures = Streak(folder.log)

\* every file of the folder is taken up; a file that was loaded has all its
\* records taken unless its loop was broken off
EveryFileTaken ==
    /\ Len(folder.done) = folder.f
    /\ folder.pc = "returned" => Len(folder.done) = Len(folder.files)
    /\ \A j \in DOMAIN folder.done :
          (folder.done[j].loaded /\ ~folder.done[j].aborted) =>
              folder.done[j].taken = folder.files[j]

\* breaking off a file takes the run to the next file
AbortLeavesFileOnly ==
    (/\ Len(folder'.done) = Len(folder.done) + 1
     /\ folder'.done[Len(folder'.done)].aborted) =>
        /\ folder'.pc = "file"
        /\ folder'.f = folder.f + 1
        /\ folder.consecutive_failures + 1 = max_consecutive_failures

\* C29: in ingest_folder the counter of failures in a row starts at zero for
\* each file, reaching the threshold ends the current file only, and the
\* files after it are loaded and ingested.
C29_AbortScopeIsTheFile ==
    [] (CounterIsPerFile /\ EveryFileTaken) /\ [][AbortLeavesFileOnly]_vars

\* the first file was broken off with a record left, and all records of the
\* second were taken although one of them failed
C29_Witness ==
    /\ folder.pc = "returned"
    /\ Len(folder.done) = 2
    /\ folder.done[1].aborted /\ folder.done[1].taken < folder.files[1]
    /\ folder.done[2].loaded /\ ~folder.done[2].aborted
    /\ folder.done[2].taken = folder.files[2]
    /\ folder.done[2].failed >= 1
====
